---- MODULE Spec2Model ----
(***************************************************************************)
(* Model of the run-type classifier of stravart: analyze_run_type in       *)
(* src/run_analyzer.py (main.py carries a textual copy), followed by the   *)
(* /api/generate handler of src/web/api.py and select_activity of          *)
(* src/cli.py, each under a specification of its own.                      *)
(*                                                                         *)
(* Numbers.  The source computes with Python floats.  The model computes   *)
(* with exact rationals held as integers:                                  *)
(*   - a speed is num/den metres per second, and every speed the model     *)
(*     draws divides 1000 exactly, so a pace 1000/speed is a whole number  *)
(*     of seconds per kilometre;                                           *)
(*   - a distance is a whole number of centimetres, so that 3, 5 and 10    *)
(*     miles (1609.34 m each) are exact;                                   *)
(*   - avg_pace is the pair (sum of paces, number of paces); every         *)
(*     comparison of the source is cross-multiplied by positive integers.  *)
(* A name is a sequence of one-character strings, so that lower() and the  *)
(* substring test `keyword in name_lower` are computed, not assumed.       *)
(***************************************************************************)
EXTENDS Integers, Sequences, FiniteSets

VARIABLES activity, pc, run_type, paces, exc, result, history, peer,
          cwd, launch_cwd, now, req, GENERATED_IMAGES, files,
          activities, entered, selected, menu

\* the process state of web/api.py: the working directory, the clock, the
\* requests being handled, the module-level dict and the image files on disk
webvars == <<cwd, launch_cwd, now, req, GENERATED_IMAGES, files>>

\* select_activity of cli.py: its argument, the lines typed so far, the value
\* returned and its position
clivars == <<activities, entered, selected, menu>>

\* the variables of analyze_run_type and of its callers
runvars == <<activity, pc, run_type, paces, exc, result, history, peer>>

vars == <<runvars, webvars, clivars>>

\* activity .. result: the argument, the position, the locals and the returned
\*   value of the call of analyze_run_type that is followed step by step;
\* history: the argument and the label of every call completed before it;
\* peer: the same six items for a second call that runs at the same time.

(***************************************************************************)
(* Bounds of the model.                                                    *)
(***************************************************************************)
\* longest splits_metric list drawn for the pace probes
MaxSplits == 5
\* longest splits_metric list drawn for the name and shape probes
MaxProbeSplits == 3
\* number of calls made one after the other
MaxCalls == 3
\* number of /api/generate requests handled at the same time
MaxRequests == 2
\* last instant of the clock, in ticks
MaxClock == 3
\* longest list of activities shown by select_activity
MaxActivities == 2
\* number of lines typed at the prompt of select_activity
MaxInputs == 3

(***************************************************************************)
(* Strings.                                                                *)
(***************************************************************************)
UpperChars == <<"A", "B", "C", "D", "E", "F", "G", "H", "I", "J", "K", "L", "M",
                "N", "O", "P", "Q", "R", "S", "T", "U", "V", "W", "X", "Y", "Z">>

LowerChars == <<"a", "b", "c", "d", "e", "f", "g", "h", "i", "j", "k", "l", "m",
                "n", "o", "p", "q", "r", "s", "t", "u", "v", "w", "x", "y", "z">>

\* str.lower() on one character
LowerChar(c) ==
    IF \E k \in 1..Len(UpperChars) : UpperChars[k] = c
    THEN LowerChars[CHOOSE k \in 1..Len(UpperChars) : UpperChars[k] = c]
    ELSE c

\* str.lower()
Lower(s) == [k \in 1..Len(s) |-> LowerChar(s[k])]

\* `keyword in name_lower`: keyword occurs as a contiguous substring
Contains(keyword, s) ==
    \E k \in 1..(Len(s) - Len(keyword) + 1) :
        SubSeq(s, k, k + Len(keyword) - 1) = keyword

hiit_keywords ==
    << <<"h", "i", "i", "t">>,
       <<"h", "i", "g", "h", " ", "i", "n", "t", "e", "n", "s", "i", "t", "y">>,
       <<"s", "p", "r", "i", "n", "t">>,
       <<"t", "a", "b", "a", "t", "a">> >>

\* faulty variant of interval_keywords: the one-letter keyword is left out
interval_keywords_NoX ==
    << <<"i", "n", "t", "e", "r", "v", "a", "l">>,
       <<"r", "e", "p", "e", "a", "t">>,
       <<"4", "0", "0">>,
       <<"8", "0", "0">>,
       <<"1", "0", "0", "0">>,
       <<"1", "2", "0", "0">>,
       <<"1", "6", "0", "0">>,
       <<"m", "i", "l", "e", " ", "r", "e", "p", "e", "a", "t">>,
       <<"h", "i", "i", "t">> >>

interval_keywords ==
    << <<"i", "n", "t", "e", "r", "v", "a", "l">>,
       <<"r", "e", "p", "e", "a", "t">>,
       <<"x">>,
       <<"4", "0", "0">>,
       <<"8", "0", "0">>,
       <<"1", "0", "0", "0">>,
       <<"1", "2", "0", "0">>,
       <<"1", "6", "0", "0">>,
       <<"m", "i", "l", "e", " ", "r", "e", "p", "e", "a", "t">>,
       <<"h", "i", "i", "t">> >>

\* for keyword in keywords: if keyword in name_lower
AnyKeyword(keywords, name_lower) ==
    \E k \in 1..Len(keywords) : Contains(keywords[k], name_lower)

(***************************************************************************)
(* Labels, as the source spells them.                                      *)
(***************************************************************************)
RUN == "run"
HIIT == "High Intensity Interval Training"
INTERVAL == "Interval Run"
EASY == "Easy Run"
TEMPO == "Tempo Run"
LONG == "Long Run"

Labels == {RUN, HIIT, INTERVAL, EASY, TEMPO, LONG}

(***************************************************************************)
(* Values of the attributes the classifier reads.  kind says what          *)
(* hasattr() and the operators of the source see:                          *)
(*   "absent"  the object has no such attribute (hasattr is False),        *)
(*   "none"    the attribute is None,                                      *)
(*   "str"     the attribute is a string (a name; or a speed that is not   *)
(*             comparable to a number),                                    *)
(*   "num"     the attribute is a number,                                  *)
(*   "list"    the attribute is a list of splits.                          *)
(***************************************************************************)
NameAbsent == [kind |-> "absent", chars |-> <<>>]
NameNone == [kind |-> "none", chars |-> <<>>]
NameStr(s) == [kind |-> "str", chars |-> s]

\* a split whose average_speed is num/den metres per second
Speed(n, d) == [kind |-> "num", num |-> n, den |-> d]
SpeedAbsent == [kind |-> "absent", num |-> 0, den |-> 1]
SpeedStr == [kind |-> "str", num |-> 0, den |-> 1]

DistanceAbsent == [kind |-> "absent", cm |-> 0]
DistanceNone == [kind |-> "none", cm |-> 0]
Distance(c) == [kind |-> "num", cm |-> c]

SplitsAbsent == [kind |-> "absent", items |-> <<>>]
SplitsNone == [kind |-> "none", items |-> <<>>]
SplitsList(q) == [kind |-> "list", items |-> q]

(***************************************************************************)
(* Arithmetic of the classifier.                                           *)
(***************************************************************************)
\* metres in a kilometre: the 1000 of `1000 / split.average_speed`
MetresPerKm == 1000
\* 7:30 per mile, in seconds
SlowPaceSecsPerMile == 450
\* 1609.34 metres per mile, in centimetres
CmPerMile == 160934
\* 1.60934 kilometres per mile, in units of 1/100000
KmPerMileE5 == 160934

RECURSIVE Sum(_)
Sum(q) == IF q = <<>> THEN 0 ELSE Head(q) + Sum(Tail(q))

RECURSIVE Max(_)
Max(q) ==
    IF Len(q) = 1 THEN q[1]
    ELSE LET m == Max(Tail(q)) IN IF q[1] > m THEN q[1] ELSE m

RECURSIVE Min(_)
Min(q) ==
    IF Len(q) = 1 THEN q[1]
    ELSE LET m == Min(Tail(q)) IN IF q[1] < m THEN q[1] ELSE m

\* hasattr(split, 'average_speed') and split.average_speed > 0
HasPositiveSpeed(split) == split.kind = "num" /\ split.num > 0

\* split.average_speed > 0 raises TypeError: the speed is not comparable to 0
SpeedNotComparable(split) == split.kind = "str"

\* pace_secs_per_km = 1000 / split.average_speed
pace_secs_per_km(split) == (MetresPerKm * split.den) \div split.num

\* faulty variant of ExtractPaces: a split of speed zero counts as a pace of 0
RECURSIVE ExtractPaces_ZeroAsPace(_)
ExtractPaces_ZeroAsPace(splits) ==
    IF splits = <<>> THEN <<>>
    ELSE IF HasPositiveSpeed(Head(splits))
         THEN <<pace_secs_per_km(Head(splits))>> \o ExtractPaces_ZeroAsPace(Tail(splits))
         ELSE IF Head(splits).kind = "num"
         THEN <<0>> \o ExtractPaces_ZeroAsPace(Tail(splits))
         ELSE ExtractPaces_ZeroAsPace(Tail(splits))

\* the loop over splits that appends the pace of every usable split
RECURSIVE ExtractPaces(_)
ExtractPaces(splits) ==
    IF splits = <<>> THEN <<>>
    ELSE IF HasPositiveSpeed(Head(splits))
         THEN <<pace_secs_per_km(Head(splits))>> \o ExtractPaces(Tail(splits))
         ELSE ExtractPaces(Tail(splits))

\* pace_variation = max(paces) - min(paces)
pace_variation(p) == Max(p) - Min(p)

\* faulty variant of alternating_pattern: the comparisons are not strict
alternating_pattern_NonStrict(p) ==
    ~ \E i \in 3..Len(p) :
        \/ (p[i] >= p[i-1] /\ p[i-1] >= p[i-2])
        \/ (p[i] =< p[i-1] /\ p[i-1] =< p[i-2])

\* `for i in range(2, len(paces))` from the triple that ends at the i-th pace
\* on (counted from 1): False and break at the first monotonic triple
RECURSIVE AlternatingFrom(_, _)
AlternatingFrom(p, i) ==
    IF i > Len(p) THEN TRUE
    ELSE IF \/ (p[i] > p[i-1] /\ p[i-1] > p[i-2])
            \/ (p[i] < p[i-1] /\ p[i-1] < p[i-2])
         THEN FALSE
         ELSE AlternatingFrom(p, i + 1)

\* the loop that clears alternating_pattern at the first monotonic triple
alternating_pattern(p) == AlternatingFrom(p, 3)

\* pace_variation > avg_pace * 0.2, with avg_pace = Sum(p) / Len(p)
VariationAboveFifth(p) == 10 * Len(p) * pace_variation(p) > 2 * Sum(p)

\* sum((p - avg_pace) ** 2 for p in paces), times Len(p)^2
SumSquares(p) ==
    LET d == [k \in 1..Len(p) |-> (Len(p) * p[k] - Sum(p)) * (Len(p) * p[k] - Sum(p))]
    IN  Sum(d)

\* pace_std_dev < avg_pace * 0.1: both sides are >= 0, so compare the squares,
\* SumSquares / n^3 < Sum^2 / (100 * n^2)
StdDevBelowTenth(p) == 100 * SumSquares(p) < Len(p) * Sum(p) * Sum(p)

\* avg_pace_secs_per_mile >= 450, with avg_pace_secs_per_mile = avg_pace * 1.60934
AtOrSlowerThan730(p) == Sum(p) * KmPerMileE5 >= SlowPaceSecsPerMile * 100000 * Len(p)

\* distance_miles compared with m miles; distance_miles = activity.distance / 1609.34
MilesAbove(cm, m) == cm > m * CmPerMile
MilesAtLeast(cm, m) == cm >= m * CmPerMile

\* faulty variant of Classify: the Easy Run test comes before the interval test
Classify_EasyFirst(p, cm) ==
    IF MilesAbove(cm, 5) /\ AtOrSlowerThan730(p) THEN EASY
    ELSE IF alternating_pattern(p) /\ VariationAboveFifth(p) THEN INTERVAL
    ELSE IF MilesAtLeast(cm, 3) /\ ~MilesAbove(cm, 10)
            /\ ~AtOrSlowerThan730(p) /\ StdDevBelowTenth(p) THEN TEMPO
    ELSE IF MilesAbove(cm, 10) /\ AtOrSlowerThan730(p) THEN LONG
    ELSE IF ~MilesAbove(cm, 5) /\ ~AtOrSlowerThan730(p) THEN TEMPO
    ELSE RUN

\* faulty variant of Classify: the last branch tests distance_miles < 5
Classify_ShortStrict(p, cm) ==
    IF alternating_pattern(p) /\ VariationAboveFifth(p) THEN INTERVAL
    ELSE IF MilesAbove(cm, 5) /\ AtOrSlowerThan730(p) THEN EASY
    ELSE IF MilesAtLeast(cm, 3) /\ ~MilesAbove(cm, 10)
            /\ ~AtOrSlowerThan730(p) /\ StdDevBelowTenth(p) THEN TEMPO
    ELSE IF MilesAbove(cm, 10) /\ AtOrSlowerThan730(p) THEN LONG
    ELSE IF ~MilesAtLeast(cm, 5) /\ ~AtOrSlowerThan730(p) THEN TEMPO
    ELSE RUN

\* faulty variant of Classify: the Long Run test comes before the Easy Run test
Classify_LongFirst(p, cm) ==
    IF alternating_pattern(p) /\ VariationAboveFifth(p) THEN INTERVAL
    ELSE IF MilesAbove(cm, 10) /\ AtOrSlowerThan730(p) THEN LONG
    ELSE IF MilesAbove(cm, 5) /\ AtOrSlowerThan730(p) THEN EASY
    ELSE IF MilesAtLeast(cm, 3) /\ ~MilesAbove(cm, 10)
            /\ ~AtOrSlowerThan730(p) /\ StdDevBelowTenth(p) THEN TEMPO
    ELSE IF ~MilesAbove(cm, 5) /\ ~AtOrSlowerThan730(p) THEN TEMPO
    ELSE RUN

\* faulty variant of Classify: the first Tempo Run test is 3 < distance_miles < 10
Classify_TempoOpenRange(p, cm) ==
    IF alternating_pattern(p) /\ VariationAboveFifth(p) THEN INTERVAL
    ELSE IF MilesAbove(cm, 5) /\ AtOrSlowerThan730(p) THEN EASY
    ELSE IF MilesAbove(cm, 3) /\ ~MilesAtLeast(cm, 10)
            /\ ~AtOrSlowerThan730(p) /\ StdDevBelowTenth(p) THEN TEMPO
    ELSE IF MilesAbove(cm, 10) /\ AtOrSlowerThan730(p) THEN LONG
    ELSE IF ~MilesAbove(cm, 5) /\ ~AtOrSlowerThan730(p) THEN TEMPO
    ELSE RUN

\* faulty variant of Classify: the last branch tests the pace alone
Classify_FastIsTempo(p, cm) ==
    IF alternating_pattern(p) /\ VariationAboveFifth(p) THEN INTERVAL
    ELSE IF MilesAbove(cm, 5) /\ AtOrSlowerThan730(p) THEN EASY
    ELSE IF MilesAtLeast(cm, 3) /\ ~MilesAbove(cm, 10)
            /\ ~AtOrSlowerThan730(p) /\ StdDevBelowTenth(p) THEN TEMPO
    ELSE IF MilesAbove(cm, 10) /\ AtOrSlowerThan730(p) THEN LONG
    ELSE IF ~AtOrSlowerThan730(p) THEN TEMPO
    ELSE RUN

\* faulty variant of Classify: no label is left when no branch is taken
Classify_NoFallback(p, cm) ==
    IF alternating_pattern(p) /\ VariationAboveFifth(p) THEN INTERVAL
    ELSE IF MilesAbove(cm, 5) /\ AtOrSlowerThan730(p) THEN EASY
    ELSE IF MilesAtLeast(cm, 3) /\ ~MilesAbove(cm, 10)
            /\ ~AtOrSlowerThan730(p) /\ StdDevBelowTenth(p) THEN TEMPO
    ELSE IF MilesAbove(cm, 10) /\ AtOrSlowerThan730(p) THEN LONG
    ELSE IF ~MilesAbove(cm, 5) /\ ~AtOrSlowerThan730(p) THEN TEMPO
    ELSE "none"

\* faulty variant of Classify: the Easy Run branch stops at 10 miles
Classify_EasyUpToTen(p, cm) ==
    IF alternating_pattern(p) /\ VariationAboveFifth(p) THEN INTERVAL
    ELSE IF MilesAbove(cm, 5) /\ ~MilesAbove(cm, 10) /\ AtOrSlowerThan730(p) THEN EASY
    ELSE IF MilesAtLeast(cm, 3) /\ ~MilesAbove(cm, 10)
            /\ ~AtOrSlowerThan730(p) /\ StdDevBelowTenth(p) THEN TEMPO
    ELSE IF MilesAbove(cm, 10) /\ AtOrSlowerThan730(p) THEN LONG
    ELSE IF ~MilesAbove(cm, 5) /\ ~AtOrSlowerThan730(p) THEN TEMPO
    ELSE RUN

\* faulty variant of Classify: every slow run is an Easy Run, short ones too
Classify_SlowIsEasy(p, cm) ==
    IF alternating_pattern(p) /\ VariationAboveFifth(p) THEN INTERVAL
    ELSE IF AtOrSlowerThan730(p) THEN EASY
    ELSE IF MilesAtLeast(cm, 3) /\ ~MilesAbove(cm, 10)
            /\ ~AtOrSlowerThan730(p) /\ StdDevBelowTenth(p) THEN TEMPO
    ELSE IF MilesAbove(cm, 10) /\ AtOrSlowerThan730(p) THEN LONG
    ELSE IF ~MilesAbove(cm, 5) /\ ~AtOrSlowerThan730(p) THEN TEMPO
    ELSE RUN

\* faulty variant of Classify: the interval test looks at the pattern only
Classify_AlternatingOnly(p, cm) ==
    IF alternating_pattern(p) THEN INTERVAL
    ELSE IF MilesAbove(cm, 5) /\ AtOrSlowerThan730(p) THEN EASY
    ELSE IF MilesAtLeast(cm, 3) /\ ~MilesAbove(cm, 10)
            /\ ~AtOrSlowerThan730(p) /\ StdDevBelowTenth(p) THEN TEMPO
    ELSE IF MilesAbove(cm, 10) /\ AtOrSlowerThan730(p) THEN LONG
    ELSE IF ~MilesAbove(cm, 5) /\ ~AtOrSlowerThan730(p) THEN TEMPO
    ELSE RUN

\* the if/elif chain that sets run_type
Classify(p, cm) ==
    IF alternating_pattern(p) /\ VariationAboveFifth(p) THEN INTERVAL
    ELSE IF MilesAbove(cm, 5) /\ AtOrSlowerThan730(p) THEN EASY
    ELSE IF MilesAtLeast(cm, 3) /\ ~MilesAbove(cm, 10)
            /\ ~AtOrSlowerThan730(p) /\ StdDevBelowTenth(p) THEN TEMPO
    ELSE IF MilesAbove(cm, 10) /\ AtOrSlowerThan730(p) THEN LONG
    ELSE IF ~MilesAbove(cm, 5) /\ ~AtOrSlowerThan730(p) THEN TEMPO
    ELSE RUN

\* faulty variant of NameLabel: the interval keywords are tried first
NameLabel_IntervalFirst(chars) ==
    LET name_lower == Lower(chars) IN
    IF AnyKeyword(interval_keywords, name_lower) THEN INTERVAL
    ELSE IF AnyKeyword(hiit_keywords, name_lower) THEN HIIT
    ELSE ""

\* the first position at which one of keywords starts in s, Len(s) + 1 if none
EarliestKeyword(keywords, s) ==
    LET at == {k \in 1..Len(s) :
                  \E j \in 1..Len(keywords) :
                      /\ k + Len(keywords[j]) - 1 =< Len(s)
                      /\ SubSeq(s, k, k + Len(keywords[j]) - 1) = keywords[j]}
    IN  IF at = {} THEN Len(s) + 1 ELSE CHOOSE k \in at : \A m \in at : k =< m

\* faulty variant of NameLabel: the keyword that comes first in the name wins
NameLabel_FirstOccurrence(chars) ==
    LET name_lower == Lower(chars)
        h == EarliestKeyword(hiit_keywords, name_lower)
        i == EarliestKeyword(interval_keywords, name_lower)
    IN  IF h > Len(name_lower) /\ i > Len(name_lower) THEN ""
        ELSE IF h =< i THEN HIIT
        ELSE INTERVAL

\* the name check: the label it returns, or "" when it returns nothing
NameLabel(chars) ==
    LET name_lower == Lower(chars) IN
    IF AnyKeyword(hiit_keywords, name_lower) THEN HIIT
    ELSE IF AnyKeyword(interval_keywords, name_lower) THEN INTERVAL
    ELSE ""

\* splits = activity.splits_metric if it is there and truthy, else []
SplitsOf(a) ==
    IF a.splits_metric.kind = "list" /\ a.splits_metric.items # <<>>
    THEN a.splits_metric.items
    ELSE <<>>

\* faulty variant of NotEnoughData: len(splits) < 2
NotEnoughData_Two(splits) == Len(splits) < 2

\* Not enough data for analysis: len(splits) < 3
NotEnoughData(splits) == Len(splits) < 3

\* some split.average_speed > 0 raises inside the loop over splits
SomeSpeedNotComparable(splits) ==
    \E k \in 1..Len(splits) : SpeedNotComparable(splits[k])

\* the value analyze_run_type(a) returns; every exception is caught and
\* turned into the fallback, which is still "run" wherever one is raised
analyze_run_type(a) ==
    IF a.name.kind = "none" THEN RUN
    ELSE IF a.name.kind = "str" /\ NameLabel(a.name.chars) # ""
    THEN NameLabel(a.name.chars)
    ELSE IF NotEnoughData(SplitsOf(a)) THEN RUN
    ELSE IF SomeSpeedNotComparable(SplitsOf(a)) THEN RUN
    ELSE IF ExtractPaces(SplitsOf(a)) = <<>> THEN RUN
    ELSE IF a.distance.kind # "num" THEN RUN
    ELSE Classify(ExtractPaces(SplitsOf(a)), a.distance.cm)

(***************************************************************************)
(* main.py: its own analyze_run_type, lines 462-555.                       *)
(***************************************************************************)
main_hiit_keywords ==
    << <<"h", "i", "i", "t">>,
       <<"h", "i", "g", "h", " ", "i", "n", "t", "e", "n", "s", "i", "t", "y">>,
       <<"s", "p", "r", "i", "n", "t">>,
       <<"t", "a", "b", "a", "t", "a">> >>

main_interval_keywords ==
    << <<"i", "n", "t", "e", "r", "v", "a", "l">>,
       <<"r", "e", "p", "e", "a", "t">>,
       <<"x">>,
       <<"4", "0", "0">>,
       <<"8", "0", "0">>,
       <<"1", "0", "0", "0">>,
       <<"1", "2", "0", "0">>,
       <<"1", "6", "0", "0">>,
       <<"m", "i", "l", "e", " ", "r", "e", "p", "e", "a", "t">>,
       <<"h", "i", "i", "t">> >>

\* main.py lines 476-489
main_NameLabel(chars) ==
    LET name_lower == Lower(chars) IN
    IF AnyKeyword(main_hiit_keywords, name_lower) THEN HIIT
    ELSE IF AnyKeyword(main_interval_keywords, name_lower) THEN INTERVAL
    ELSE ""

\* main.py line 497: len(splits) < 3
main_NotEnoughData(splits) == Len(splits) < 3

\* main.py lines 502-506
RECURSIVE main_ExtractPaces(_)
main_ExtractPaces(splits) ==
    IF splits = <<>> THEN <<>>
    ELSE IF HasPositiveSpeed(Head(splits))
         THEN <<pace_secs_per_km(Head(splits))>> \o main_ExtractPaces(Tail(splits))
         ELSE main_ExtractPaces(Tail(splits))

\* main.py lines 536-550
main_Classify(p, cm) ==
    IF alternating_pattern(p) /\ VariationAboveFifth(p) THEN INTERVAL
    ELSE IF MilesAbove(cm, 5) /\ AtOrSlowerThan730(p) THEN EASY
    ELSE IF MilesAtLeast(cm, 3) /\ ~MilesAbove(cm, 10)
            /\ ~AtOrSlowerThan730(p) /\ StdDevBelowTenth(p) THEN TEMPO
    ELSE IF MilesAbove(cm, 10) /\ AtOrSlowerThan730(p) THEN LONG
    ELSE IF ~MilesAbove(cm, 5) /\ ~AtOrSlowerThan730(p) THEN TEMPO
    ELSE RUN

\* the value main.analyze_run_type(a) returns
main_analyze_run_type(a) ==
    IF a.name.kind = "none" THEN RUN
    ELSE LET label == IF a.name.kind = "str" THEN main_NameLabel(a.name.chars) ELSE ""
             splits == SplitsOf(a)
             paces_ == main_ExtractPaces(splits)
         IN  IF label # "" THEN label
             ELSE IF main_NotEnoughData(splits) THEN RUN
             ELSE IF SomeSpeedNotComparable(splits) THEN RUN
             ELSE IF paces_ = <<>> THEN RUN
             ELSE IF a.distance.kind # "num" THEN RUN
             ELSE main_Classify(paces_, a.distance.cm)

(***************************************************************************)
(* custom_run.py: the run type main() derives from the activity title.     *)
(***************************************************************************)
custom_hiit_keywords ==
    << <<"h", "i", "i", "t">>,
       <<"s", "p", "r", "i", "n", "t">>,
       <<"t", "a", "b", "a", "t", "a">>,
       <<"h", "i", "g", "h", " ", "i", "n", "t", "e", "n", "s", "i", "t", "y">> >>

custom_interval_keywords ==
    << <<"i", "n", "t", "e", "r", "v", "a", "l">>,
       <<"r", "e", "p", "e", "a", "t">>,
       <<"x", "4", "0", "0">>,
       <<"4", "0", "0", "m">>,
       <<"8", "0", "0", "m">> >>

\* the if/elif/else on activity_name_lower
custom_run_type(activity_title) ==
    LET activity_name_lower == Lower(activity_title) IN
    IF AnyKeyword(custom_hiit_keywords, activity_name_lower) THEN HIIT
    ELSE IF AnyKeyword(custom_interval_keywords, activity_name_lower) THEN INTERVAL
    ELSE TEMPO

(***************************************************************************)
(* The activities the model classifies.                                    *)
(***************************************************************************)
SeqsUpTo(S, n) == UNION {[1..k -> S] : k \in 0..n}

\* a name without any keyword
PlainName == <<"M", "o", "r", "n", "i", "n", "g", " ", "R", "u", "n">>

NameStrings ==
    { PlainName,
      <<>>,
      <<"E", "a", "s", "y", " ", "5", "k">>,
      <<"T", "a", "b", "a", "t", "a", " ", "B", "l", "a", "s", "t">>,
      <<"H", "I", "I", "T">>,
      <<"H", "i", "g", "h", " ", "I", "n", "t", "e", "n", "s", "i", "t", "y">>,
      <<"S", "p", "r", "i", "n", "t", " ", "I", "n", "t", "e", "r", "v", "a", "l", "s">>,
      <<"1", "2", "x", "4", "0", "0", " ", "S", "p", "r", "i", "n", "t", " ",
        "I", "n", "t", "e", "r", "v", "a", "l", "s">>,
      <<"1", "2", "x", "4", "0", "0", " ", "R", "e", "p", "e", "a", "t", "s">>,
      <<"I", "n", "t", "e", "r", "v", "a", "l">>,
      <<"M", "i", "l", "e", " ", "R", "e", "p", "e", "a", "t">>,
      <<"F", "o", "x", " ", "T", "r", "a", "i", "l">>,
      <<"T", "r", "a", "c", "k", " ", "4", "0", "0">>,
      <<"8", "0", "0", "s">>,
      <<"1", "0", "0", "0", "s">>,
      <<"1", "2", "0", "0", "s">>,
      <<"1", "6", "0", "0", "s">> }

Names == {NameAbsent, NameNone} \cup {NameStr(s) : s \in NameStrings}

\* speeds of 5, 1000/279, 25/7, 10/3 and 5/2 m/s: paces of 200, 279, 280, 300
\* and 400 s/km (279 s/km is 449.006 s/mile, 280 s/km is 450.615 s/mile)
PaceProbeSpeeds ==
    {Speed(5, 1), Speed(1000, 279), Speed(25, 7), Speed(10, 3), Speed(5, 2)}

\* a speed of zero among speeds of 5 and 5/2 m/s
SkipProbeSpeeds == {Speed(0, 1), Speed(5, 1), Speed(5, 2)}

ShapeProbeSpeeds == {SpeedAbsent, SpeedStr, Speed(0, 1), Speed(5, 1)}

\* just under 3 miles, 3, 5, just over 5, 10 and 11 miles, in centimetres
NumericDistances ==
    {Distance(482801), Distance(482802), Distance(804670), Distance(804671),
     Distance(1609340), Distance(1770274)}

Distances == {DistanceAbsent, DistanceNone} \cup NumericDistances

Activity(n, sm, d) == [name |-> n, splits_metric |-> sm, distance |-> d]

\* a plain name, a numeric distance, every list of positive speeds
PaceProbe(a) ==
    \E q \in SeqsUpTo(PaceProbeSpeeds, MaxSplits), d \in NumericDistances :
        a = Activity(NameStr(PlainName), SplitsList(q), d)

\* a plain name, any distance, lists in which some speeds are zero
SkipProbe(a) ==
    \E q \in SeqsUpTo(SkipProbeSpeeds, MaxSplits), d \in Distances :
        a = Activity(NameStr(PlainName), SplitsList(q), d)

\* every name and distance, short lists that hold missing and malformed speeds
ShapeProbe(a) ==
    \E n \in Names, d \in Distances :
        \/ a = Activity(n, SplitsAbsent, d)
        \/ a = Activity(n, SplitsNone, d)
        \/ \E q \in SeqsUpTo(ShapeProbeSpeeds, MaxProbeSplits) :
              a = Activity(n, SplitsList(q), d)

(***************************************************************************)
(* analyze_run_type(activity), in the steps of its source.                 *)
(***************************************************************************)
\* web/api.py before any request: launched from its parent directory, no
\* request received, GENERATED_IMAGES = {} (line 27), no image written
Requests == 1..MaxRequests

NoKey == [activity_id |-> "none", second |-> -1]

NoRequest ==
    [pc |-> "idle", activity_id |-> "none", original_cwd |-> "none",
     failed |-> FALSE, image_path |-> -1, image_key |-> NoKey, status |-> 0]

WebLaunched(dir) ==
    /\ cwd = dir
    /\ launch_cwd = dir
    /\ now = 0
    /\ req = [r \in Requests |-> NoRequest]
    /\ GENERATED_IMAGES = <<>>
    /\ files = <<>>

WebIdle == WebLaunched("parent_dir")

\* select_activity has not been called
CliIdle ==
    /\ activities = <<>>
    /\ entered = <<>>
    /\ selected = "none"
    /\ menu = "idle"

\* the record of the second call while no second call is running
NoPeer ==
    [activity |-> Activity(NameAbsent, SplitsAbsent, DistanceAbsent), pc |-> "idle",
     run_type |-> RUN, paces |-> <<>>, exc |-> "none", result |-> "none"]

Init ==
    /\ (PaceProbe(activity) \/ SkipProbe(activity) \/ ShapeProbe(activity))
    /\ pc = "name"
    /\ run_type = RUN
    /\ paces = <<>>
    /\ exc = "none"
    /\ result = "none"
    /\ history = <<>>
    /\ peer = NoPeer
    /\ WebIdle
    /\ CliIdle

Return(label) ==
    /\ result' = label
    /\ pc' = "done"

Raise(e) ==
    /\ exc' = e
    /\ pc' = "except"

\* lines 15-28: the keyword check on the name
CheckName ==
    /\ pc = "name"
    /\ UNCHANGED <<activity, run_type, paces, history, peer, webvars, clivars>>
    /\ IF activity.name.kind = "absent"
       THEN pc' = "splits" /\ UNCHANGED <<exc, result>>
       ELSE IF activity.name.kind = "none"
       THEN Raise("AttributeError") /\ UNCHANGED result
       ELSE LET label == NameLabel(activity.name.chars) IN
            IF label # ""
            THEN Return(label) /\ UNCHANGED exc
            ELSE pc' = "splits" /\ UNCHANGED <<exc, result>>

\* faulty variant of GetPaces: activity.distance is read before the guard on
\* the number of splits
GetPaces_ReadsDistanceFirst ==
    /\ pc = "splits"
    /\ UNCHANGED <<activity, run_type, history, peer, webvars, clivars>>
    /\ LET splits == SplitsOf(activity) IN
       IF activity.distance.kind = "absent"
       THEN Raise("AttributeError") /\ UNCHANGED <<paces, result>>
       ELSE IF NotEnoughData(splits)
       THEN Return(run_type) /\ UNCHANGED <<paces, exc>>
       ELSE IF SomeSpeedNotComparable(splits)
       THEN Raise("TypeError") /\ UNCHANGED <<paces, result>>
       ELSE /\ paces' = ExtractPaces(splits)
            /\ IF paces' = <<>>
               THEN Return(run_type) /\ UNCHANGED exc
               ELSE pc' = "decide" /\ UNCHANGED <<exc, result>>

\* faulty variant of GetPaces: the unusable splits are removed from the
\* list of the activity itself
GetPaces_FiltersInPlace ==
    /\ pc = "splits"
    /\ UNCHANGED <<run_type, history, peer, webvars, clivars>>
    /\ LET splits == SplitsOf(activity) IN
       IF NotEnoughData(splits)
       THEN Return(run_type) /\ UNCHANGED <<activity, paces, exc>>
       ELSE IF SomeSpeedNotComparable(splits)
       THEN Raise("TypeError") /\ UNCHANGED <<activity, paces, result>>
       ELSE /\ paces' = ExtractPaces(splits)
            /\ activity' = [activity EXCEPT
                              !.splits_metric.items = SelectSeq(splits, HasPositiveSpeed)]
            /\ IF paces' = <<>>
               THEN Return(run_type) /\ UNCHANGED exc
               ELSE pc' = "decide" /\ UNCHANGED <<exc, result>>

\* faulty variant of GetPaces: an empty pace list is not returned on, and the
\* mean of no paces divides by zero
GetPaces_NoEmptyCheck ==
    /\ pc = "splits"
    /\ UNCHANGED <<activity, run_type, history, peer, webvars, clivars>>
    /\ LET splits == SplitsOf(activity) IN
       IF NotEnoughData(splits)
       THEN Return(run_type) /\ UNCHANGED <<paces, exc>>
       ELSE IF SomeSpeedNotComparable(splits)
       THEN Raise("TypeError") /\ UNCHANGED <<paces, result>>
       ELSE /\ paces' = ExtractPaces(splits)
            /\ IF paces' = <<>>
               THEN Raise("ZeroDivisionError") /\ UNCHANGED result
               ELSE pc' = "decide" /\ UNCHANGED <<exc, result>>

\* lines 30-48: the splits, the raw-count guard, the pace of every usable split
GetPaces ==
    /\ pc = "splits"
    /\ UNCHANGED <<activity, run_type, history, peer, webvars, clivars>>
    /\ LET splits == SplitsOf(activity) IN
       IF NotEnoughData(splits)
       THEN Return(run_type) /\ UNCHANGED <<paces, exc>>
       ELSE IF SomeSpeedNotComparable(splits)
       THEN Raise("TypeError") /\ UNCHANGED <<paces, result>>
       ELSE /\ paces' = ExtractPaces(splits)
            /\ IF paces' = <<>>
               THEN Return(run_type) /\ UNCHANGED exc
               ELSE pc' = "decide" /\ UNCHANGED <<exc, result>>

\* faulty variant of Decide: a missing distance is read as 0
Decide_MissingDistanceIsZero ==
    /\ pc = "decide"
    /\ UNCHANGED <<activity, paces, history, peer, webvars, clivars>>
    /\ IF activity.distance.kind = "none"
       THEN Raise("TypeError") /\ UNCHANGED <<run_type, result>>
       ELSE /\ run_type' = Classify(paces, activity.distance.cm)
            /\ Return(run_type')
            /\ UNCHANGED exc

\* lines 50-91: the statistics, the distance and the threshold decision
Decide ==
    /\ pc = "decide"
    /\ UNCHANGED <<activity, paces, history, peer, webvars, clivars>>
    /\ IF activity.distance.kind = "absent"
       THEN Raise("AttributeError") /\ UNCHANGED <<run_type, result>>
       ELSE IF activity.distance.kind = "none"
       THEN Raise("TypeError") /\ UNCHANGED <<run_type, result>>
       ELSE /\ run_type' = Classify(paces, activity.distance.cm)
            /\ Return(run_type')
            /\ UNCHANGED exc

\* faulty variant of HandleException: the exception leaves analyze_run_type
HandleException_Reraise ==
    /\ pc = "except"
    /\ pc' = "propagated"
    /\ UNCHANGED <<activity, run_type, paces, exc, result, history, peer, webvars, clivars>>

\* lines 92-94: except Exception: return run_type
HandleException ==
    /\ pc = "except"
    /\ Return(run_type)
    /\ UNCHANGED <<activity, run_type, paces, exc, history, peer, webvars, clivars>>

Next == CheckName \/ GetPaces \/ Decide \/ HandleException

Spec == Init /\ [][Next]_vars

(***************************************************************************)
(* Calls one after the other.  Each call starts at line 11, where the      *)
(* local run_type is bound to "run"; history keeps the argument and the    *)
(* label of every call that has returned.                                  *)
(***************************************************************************)
\* one activity for every way through the function: a HIIT name, an interval
\* name, a name of None, two splits, no usable split, a speed that is a
\* string, no distance, and paces that end in each branch of the decision
RepeatProbes ==
    { Activity(NameStr(<<"H", "I", "I", "T">>), SplitsAbsent, DistanceAbsent),
      Activity(NameStr(<<"I", "n", "t", "e", "r", "v", "a", "l">>), SplitsAbsent,
               DistanceAbsent),
      Activity(NameNone, SplitsAbsent, DistanceAbsent),
      Activity(NameStr(PlainName), SplitsList(<<Speed(5, 1), Speed(5, 1)>>),
               Distance(804670)),
      Activity(NameStr(PlainName),
               SplitsList(<<Speed(0, 1), Speed(0, 1), Speed(0, 1)>>), Distance(804670)),
      Activity(NameStr(PlainName),
               SplitsList(<<Speed(5, 1), SpeedStr, Speed(5, 1)>>), Distance(804670)),
      Activity(NameStr(PlainName),
               SplitsList(<<Speed(5, 1), Speed(5, 1), Speed(5, 1)>>), DistanceAbsent),
      Activity(NameStr(PlainName),
               SplitsList(<<Speed(5, 1), Speed(5, 1), Speed(5, 1)>>), Distance(804670)),
      Activity(NameStr(PlainName),
               SplitsList(<<Speed(25, 7), Speed(25, 7), Speed(25, 7)>>), Distance(804671)),
      Activity(NameStr(PlainName),
               SplitsList(<<Speed(5, 1), Speed(5, 2), Speed(5, 1)>>), Distance(804670)),
      Activity(NameStr(PlainName),
               SplitsList(<<Speed(5, 1), Speed(5, 1), Speed(5, 1)>>), Distance(1770274)) }

InitCalls ==
    /\ activity \in RepeatProbes
    /\ pc = "name"
    /\ run_type = RUN
    /\ paces = <<>>
    /\ exc = "none"
    /\ result = "none"
    /\ history = <<>>
    /\ peer = NoPeer
    /\ WebIdle
    /\ CliIdle

\* faulty variant of CallAgain: run_type outlives the call, as a module-level
\* variable would
CallAgain_KeepsRunType ==
    /\ pc = "done"
    /\ Len(history) < MaxCalls - 1
    /\ history' = Append(history, [a |-> activity, r |-> result])
    /\ activity' \in RepeatProbes
    /\ pc' = "name"
    /\ paces' = <<>>
    /\ exc' = "none"
    /\ result' = "none"
    /\ UNCHANGED <<run_type, peer, webvars, clivars>>

\* the caller takes the label and calls analyze_run_type once more; lines
\* 4-11: fresh locals, run_type = "run"
CallAgain ==
    /\ pc = "done"
    /\ Len(history) < MaxCalls - 1
    /\ history' = Append(history, [a |-> activity, r |-> result])
    /\ activity' \in RepeatProbes
    /\ pc' = "name"
    /\ run_type' = RUN
    /\ paces' = <<>>
    /\ exc' = "none"
    /\ result' = "none"
    /\ UNCHANGED <<peer, webvars, clivars>>

NextCalls == CheckName \/ GetPaces \/ Decide \/ HandleException \/ CallAgain

SpecCalls == InitCalls /\ [][NextCalls]_vars

(***************************************************************************)
(* A second call running at the same time.  peer holds the argument and    *)
(* the locals of the second call; its steps are those of the first, on     *)
(* its own record.                                                         *)
(***************************************************************************)
\* lines 4-11: the frame of a call that has just bound run_type
Call(a) ==
    [activity |-> a, pc |-> "name", run_type |-> RUN, paces |-> <<>>,
     exc |-> "none", result |-> "none"]

PeerReturn(c, label) == [c EXCEPT !.result = label, !.pc = "done"]

PeerRaise(c, e) == [c EXCEPT !.exc = e, !.pc = "except"]

InitConcurrent ==
    /\ activity \in RepeatProbes
    /\ pc = "name"
    /\ run_type = RUN
    /\ paces = <<>>
    /\ exc = "none"
    /\ result = "none"
    /\ history = <<>>
    /\ peer = NoPeer
    /\ WebIdle
    /\ CliIdle

\* another thread calls analyze_run_type at any moment of the first call
PeerCall ==
    /\ peer.pc = "idle"
    /\ \E a \in RepeatProbes : peer' = Call(a)
    /\ UNCHANGED <<activity, pc, run_type, paces, exc, result, history, webvars, clivars>>

\* lines 15-28 in the second call
PeerCheckName ==
    /\ peer.pc = "name"
    /\ UNCHANGED <<activity, pc, run_type, paces, exc, result, history, webvars, clivars>>
    /\ peer' =
         IF peer.activity.name.kind = "absent"
         THEN [peer EXCEPT !.pc = "splits"]
         ELSE IF peer.activity.name.kind = "none"
         THEN PeerRaise(peer, "AttributeError")
         ELSE LET label == NameLabel(peer.activity.name.chars) IN
              IF label # ""
              THEN PeerReturn(peer, label)
              ELSE [peer EXCEPT !.pc = "splits"]

\* lines 30-48 in the second call
PeerGetPaces ==
    /\ peer.pc = "splits"
    /\ UNCHANGED <<activity, pc, run_type, paces, exc, result, history, webvars, clivars>>
    /\ peer' =
         LET splits == SplitsOf(peer.activity) IN
         IF NotEnoughData(splits)
         THEN PeerReturn(peer, peer.run_type)
         ELSE IF SomeSpeedNotComparable(splits)
         THEN PeerRaise(peer, "TypeError")
         ELSE LET extracted == ExtractPaces(splits) IN
              IF extracted = <<>>
              THEN PeerReturn([peer EXCEPT !.paces = extracted], peer.run_type)
              ELSE [peer EXCEPT !.paces = extracted, !.pc = "decide"]

\* faulty variant of PeerDecide: run_type is one variable for all calls, and
\* the second call's assignment lands in the first call's run_type
PeerDecide_SharedRunType ==
    /\ peer.pc = "decide"
    /\ UNCHANGED <<activity, pc, paces, exc, result, history, webvars, clivars>>
    /\ IF peer.activity.distance.kind = "absent"
       THEN peer' = PeerRaise(peer, "AttributeError") /\ UNCHANGED run_type
       ELSE IF peer.activity.distance.kind = "none"
       THEN peer' = PeerRaise(peer, "TypeError") /\ UNCHANGED run_type
       ELSE LET label == Classify(peer.paces, peer.activity.distance.cm) IN
            /\ peer' = PeerReturn([peer EXCEPT !.run_type = label], label)
            /\ run_type' = label

\* lines 50-91 in the second call
PeerDecide ==
    /\ peer.pc = "decide"
    /\ UNCHANGED <<activity, pc, run_type, paces, exc, result, history, webvars, clivars>>
    /\ peer' =
         IF peer.activity.distance.kind = "absent"
         THEN PeerRaise(peer, "AttributeError")
         ELSE IF peer.activity.distance.kind = "none"
         THEN PeerRaise(peer, "TypeError")
         ELSE LET label == Classify(peer.paces, peer.activity.distance.cm) IN
              PeerReturn([peer EXCEPT !.run_type = label], label)

\* lines 92-94 in the second call
PeerHandleException ==
    /\ peer.pc = "except"
    /\ peer' = PeerReturn(peer, peer.run_type)
    /\ UNCHANGED <<activity, pc, run_type, paces, exc, result, history, webvars, clivars>>

NextConcurrent ==
    \/ CheckName \/ GetPaces \/ Decide \/ HandleException
    \/ PeerCall \/ PeerCheckName \/ PeerGetPaces \/ PeerDecide \/ PeerHandleException

SpecConcurrent == InitConcurrent /\ [][NextConcurrent]_vars

(***************************************************************************)
(* web/api.py: POST /api/generate, handled by one thread per request.      *)
(* Each request r keeps its locals in req[r]; the working directory, the   *)
(* clock, GENERATED_IMAGES and the files on disk belong to the process.    *)
(* A step is the code between two accesses to what the process shares.     *)
(***************************************************************************)
ActivityIds == {"a1", "a2"}

\* the directory above web/ (api.py line 10), and any other directory
Dirs == {"parent_dir", "elsewhere"}

\* the clock runs in ticks of half a second
TicksPerSecond == 2

\* int(datetime.now().timestamp()) and strftime('%Y%m%dT%H%M%SZ'): the
\* instant cut to a whole second
Second(t) == t \div TicksPerSecond

\* d[k] = v on a dict
DictSet(d, k, v) == [x \in DOMAIN d \cup {k} |-> IF x = k THEN v ELSE d[x]]

InitWeb ==
    /\ \E dir \in Dirs : WebLaunched(dir)
    /\ activity = Activity(NameAbsent, SplitsAbsent, DistanceAbsent)
    /\ pc = "done"
    /\ run_type = RUN
    /\ paces = <<>>
    /\ exc = "none"
    /\ result = RUN
    /\ history = <<>>
    /\ peer = NoPeer
    /\ CliIdle

\* api.py lines 137-154: no activityId is a 400; the token, the client or
\* get_activity_details may raise, which is a 500 (lines 175-177)
Receive(r) ==
    /\ req[r].pc = "idle"
    /\ \E id \in ActivityIds \cup {"none"}, ok \in BOOLEAN :
         req' = [req EXCEPT ![r] =
                   IF id = "none" THEN [@ EXCEPT !.pc = "done", !.status = 400]
                   ELSE IF ~ok
                   THEN [@ EXCEPT !.pc = "done", !.activity_id = id, !.status = 500]
                   ELSE [@ EXCEPT !.pc = "getcwd", !.activity_id = id]]
    /\ UNCHANGED <<cwd, launch_cwd, now, GENERATED_IMAGES, files, runvars, clivars>>

\* api.py line 158: original_cwd = os.getcwd()
SaveCwd(r) ==
    /\ req[r].pc = "getcwd"
    /\ req' = [req EXCEPT ![r].original_cwd = cwd, ![r].pc = "chdir"]
    /\ UNCHANGED <<cwd, launch_cwd, now, GENERATED_IMAGES, files, runvars, clivars>>

\* api.py line 159: os.chdir(parent_dir)
Chdir(r) ==
    /\ req[r].pc = "chdir"
    /\ cwd' = "parent_dir"
    /\ req' = [req EXCEPT ![r].pc = "generate"]
    /\ UNCHANGED <<launch_cwd, now, GENERATED_IMAGES, files, runvars, clivars>>

\* api.py line 161 and image_generator.py lines 158-173: build_prompt, the
\* reference photo opened by a path relative to the working directory, the
\* call of the image API; any of them may raise
OpenReference(r) ==
    /\ req[r].pc = "generate"
    /\ \E ok \in BOOLEAN :
         req' = [req EXCEPT ![r] =
                   IF ok /\ cwd = "parent_dir"
                   THEN [@ EXCEPT !.pc = "write"]
                   ELSE [@ EXCEPT !.pc = "finally", !.failed = TRUE]]
    /\ UNCHANGED <<cwd, launch_cwd, now, GENERATED_IMAGES, files, runvars, clivars>>

\* image_generator.py lines 176-187: the image is written to
\* OUTPUT_DIR/strava_run_<second>.png under the working directory
WriteImage(r) ==
    /\ req[r].pc = "write"
    /\ files' = DictSet(files, [dir |-> cwd, second |-> Second(now)], r)
    /\ req' = [req EXCEPT ![r].image_path = Second(now), ![r].pc = "finally"]
    /\ UNCHANGED <<cwd, launch_cwd, now, GENERATED_IMAGES, runvars, clivars>>

\* api.py lines 163-164: finally: os.chdir(original_cwd); an exception of the
\* try body goes on to the handler of lines 175-177
Restore(r) ==
    /\ req[r].pc = "finally"
    /\ cwd' = req[r].original_cwd
    /\ req' = [req EXCEPT ![r] =
                 IF @.failed THEN [@ EXCEPT !.pc = "done", !.status = 500]
                 ELSE [@ EXCEPT !.pc = "store"]]
    /\ UNCHANGED <<launch_cwd, now, GENERATED_IMAGES, files, runvars, clivars>>

\* api.py lines 167-173: image_key = f"{activity_id}_{int(now)}",
\* GENERATED_IMAGES[image_key] = image_path, the key is returned in imageUrl
Store(r) ==
    /\ req[r].pc = "store"
    /\ LET image_key == [activity_id |-> req[r].activity_id, second |-> Second(now)] IN
       /\ GENERATED_IMAGES' = DictSet(GENERATED_IMAGES, image_key, req[r].image_path)
       /\ req' = [req EXCEPT ![r].image_key = image_key, ![r].status = 200,
                             ![r].pc = "done"]
    /\ UNCHANGED <<cwd, launch_cwd, now, files, runvars, clivars>>

\* time passes
Tick ==
    /\ now < MaxClock
    /\ now' = now + 1
    /\ UNCHANGED <<cwd, launch_cwd, req, GENERATED_IMAGES, files, runvars, clivars>>

\* api.py lines 179-190: the image a key is served with, or 404; a relative
\* image_path is looked up under parent_dir
serve_image(image_key) ==
    IF image_key \in DOMAIN GENERATED_IMAGES
    THEN LET image_path == [dir |-> "parent_dir", second |-> GENERATED_IMAGES[image_key]]
         IN  IF image_path \in DOMAIN files THEN files[image_path] ELSE 404
    ELSE 404

NextWeb ==
    \/ \E r \in Requests :
         \/ Receive(r) \/ SaveCwd(r) \/ Chdir(r) \/ OpenReference(r)
         \/ WriteImage(r) \/ Restore(r) \/ Store(r)
    \/ Tick

SpecWeb == InitWeb /\ [][NextWeb]_vars

(***************************************************************************)
(* cli.py: select_activity(activities); main.py lines 294-316 carry the    *)
(* same text.  A line typed at the prompt is a sequence of characters.     *)
(***************************************************************************)
Digits == <<"0", "1", "2", "3", "4", "5", "6", "7", "8", "9">>

IsDigit(c) == \E i \in 1..Len(Digits) : Digits[i] = c

DigitValue(c) == (CHOOSE i \in 1..Len(Digits) : Digits[i] = c) - 1

\* int() ignores blanks around the number
RECURSIVE LStrip(_)
LStrip(s) == IF s # <<>> /\ Head(s) = " " THEN LStrip(Tail(s)) ELSE s

RECURSIVE RStrip(_)
RStrip(s) ==
    IF s # <<>> /\ s[Len(s)] = " " THEN RStrip(SubSeq(s, 1, Len(s) - 1)) ELSE s

\* the digits of the number, after the blanks and one sign are taken off
Unsigned(s) ==
    LET t == RStrip(LStrip(s))
    IN  IF t # <<>> /\ Head(t) \in {"+", "-"} THEN Tail(t) ELSE t

\* int(choice) raises ValueError
ValueError(choice) ==
    LET t == Unsigned(choice)
    IN  t = <<>> \/ \E i \in 1..Len(t) : ~IsDigit(t[i])

RECURSIVE Magnitude(_)
Magnitude(t) ==
    IF t = <<>> THEN 0
    ELSE 10 * Magnitude(SubSeq(t, 1, Len(t) - 1)) + DigitValue(t[Len(t)])

\* int(choice) for a choice that does not raise
int(choice) ==
    LET t == RStrip(LStrip(choice))
    IN  IF t # <<>> /\ Head(t) = "-" THEN 0 - Magnitude(Unsigned(choice))
        ELSE Magnitude(Unsigned(choice))

\* the lines typed at the prompt
Inputs ==
    { <<"q">>, <<"Q">>, <<"q", "q">>, <<>>, <<"a", "b", "c">>, <<"1", ".", "5">>,
      <<"0">>, <<"1">>, <<"2">>, <<"3">>, <<"1", "0">>, <<"-", "1">>, <<"+", "2">>,
      <<" ", "1", " ">> }

\* the activities of the list, which may show one activity twice
ActivityObjects == {"run_a", "run_b"}

InitCli ==
    /\ activities \in SeqsUpTo(ActivityObjects, MaxActivities)
    /\ entered = <<>>
    /\ selected = "unset"
    /\ menu = "prompt"
    /\ activity = Activity(NameAbsent, SplitsAbsent, DistanceAbsent)
    /\ pc = "done"
    /\ run_type = RUN
    /\ paces = <<>>
    /\ exc = "none"
    /\ result = RUN
    /\ history = <<>>
    /\ peer = NoPeer
    /\ WebIdle

\* faulty variant of Choose: the test is 0 <= choice_num, and choice 0 indexes
\* activities[-1], the last of the list (IndexError on an empty list)
Choose_ZeroAccepted ==
    /\ menu = "prompt"
    /\ Len(entered) < MaxInputs
    /\ \E choice \in Inputs :
         /\ entered' = Append(entered, choice)
         /\ IF Lower(choice) = <<"q">>
            THEN selected' = "None" /\ menu' = "returned"
            ELSE IF ValueError(choice)
            THEN UNCHANGED <<selected, menu>>
            ELSE LET choice_num == int(choice) IN
                 IF 0 <= choice_num /\ choice_num <= Len(activities)
                 THEN IF activities = <<>>
                      THEN menu' = "raised" /\ UNCHANGED selected
                      ELSE /\ selected' = activities[IF choice_num = 0
                                                     THEN Len(activities)
                                                     ELSE choice_num]
                           /\ menu' = "returned"
                 ELSE UNCHANGED <<selected, menu>>
    /\ UNCHANGED <<activities, runvars, webvars>>

\* lines 14-26: one turn of the loop, from input() to a return or to the
\* message that precedes the next prompt
Choose ==
    /\ menu = "prompt"
    /\ Len(entered) < MaxInputs
    /\ \E choice \in Inputs :
         /\ entered' = Append(entered, choice)
         /\ IF Lower(choice) = <<"q">>
            THEN selected' = "None" /\ menu' = "returned"
            ELSE IF ValueError(choice)
            THEN UNCHANGED <<selected, menu>>
            ELSE LET choice_num == int(choice) IN
                 IF 1 <= choice_num /\ choice_num <= Len(activities)
                 THEN selected' = activities[choice_num] /\ menu' = "returned"
                 ELSE UNCHANGED <<selected, menu>>
    /\ UNCHANGED <<activities, runvars, webvars>>

\* line 16: input() meets the end of the input; EOFError is not caught by
\* except ValueError and leaves select_activity
EndOfInput ==
    /\ menu = "prompt"
    /\ menu' = "raised"
    /\ UNCHANGED <<activities, entered, selected, runvars, webvars>>

NextCli == Choose \/ EndOfInput

SpecCli == InitCli /\ [][NextCli]_vars

(***************************************************************************)
(* Vocabulary of the properties.                                           *)
(***************************************************************************)
HiitWords ==
    { <<"h", "i", "i", "t">>,
      <<"h", "i", "g", "h", " ", "i", "n", "t", "e", "n", "s", "i", "t", "y">>,
      <<"s", "p", "r", "i", "n", "t">>,
      <<"t", "a", "b", "a", "t", "a">> }

IntervalWords ==
    { <<"i", "n", "t", "e", "r", "v", "a", "l">>,
      <<"r", "e", "p", "e", "a", "t">>,
      <<"x">>,
      <<"4", "0", "0">>,
      <<"8", "0", "0">>,
      <<"1", "0", "0", "0">>,
      <<"1", "2", "0", "0">>,
      <<"1", "6", "0", "0">>,
      <<"m", "i", "l", "e", " ", "r", "e", "p", "e", "a", "t">> }

\* the activity has a string name whose lower-cased form contains one of words
NameHas(words) ==
    /\ activity.name.kind = "str"
    /\ LET lowered == Lower(activity.name.chars)
       IN  \E w \in words : Contains(w, lowered)

\* the activity has no name, or a string name without any keyword
NoKeyword ==
    \/ activity.name.kind = "absent"
    \/ activity.name.kind = "str" /\ ~NameHas(HiitWords \cup IntervalWords)

\* the number of splits with a positive average speed
UsableCount ==
    Cardinality({k \in 1..Len(SplitsOf(activity)) : HasPositiveSpeed(SplitsOf(activity)[k])})

\* the call returned from the threshold decision
Decided == pc = "done" /\ exc = "none" /\ paces # <<>>

\* the first test of the threshold decision, on the paces of the call
IntervalTest == alternating_pattern(paces) /\ VariationAboveFifth(paces)

\* the state machine returns what the function analyze_run_type returns
StepsAgreeWithFunction == pc = "done" => result = analyze_run_type(activity)

(***************************************************************************)
(* C1.  A name whose lower-cased form contains 'hiit', 'high intensity',   *)
(* 'sprint' or 'tabata' gets the High-Intensity-Interval label whatever    *)
(* the splits and the distance are: the call returns from the name check,  *)
(* before the insufficient-data guard, with no pace extracted and no       *)
(* exception raised.                                                       *)
(***************************************************************************)
C1_HiitNameWins ==
    (pc = "done" /\ NameHas(HiitWords)) =>
        (result = HIIT /\ paces = <<>> /\ exc = "none")

\* a HIIT name with no splits and no distance has been classified
C1_Witness ==
    /\ pc = "done"
    /\ NameHas(HiitWords)
    /\ SplitsOf(activity) = <<>>
    /\ activity.distance.kind = "absent"
    /\ result = HIIT

(***************************************************************************)
(* C2.  A name without a HIIT keyword whose lower-cased form contains      *)
(* 'interval', 'repeat', 'x', '400', '800', '1000', '1200', '1600' or      *)
(* 'mile repeat' gets the Interval Run label for any splits and distance,  *)
(* without numeric analysis.                                               *)
(***************************************************************************)
C2_IntervalNameWins ==
    (pc = "done" /\ ~NameHas(HiitWords) /\ NameHas(IntervalWords)) =>
        (result = INTERVAL /\ paces = <<>> /\ exc = "none")

\* a name whose only keyword is 'x', with three usable splits and a numeric
\* distance, has been classified
C2_Witness ==
    /\ pc = "done"
    /\ NameHas({<<"x">>})
    /\ ~NameHas(IntervalWords \ {<<"x">>})
    /\ ~NameHas(HiitWords)
    /\ Len(SplitsOf(activity)) = 3
    /\ UsableCount = 3
    /\ activity.distance.kind = "num"
    /\ result = INTERVAL

C4_NeverPropagates ==
    /\ pc \in {"name", "splits", "decide", "except", "done"}
    /\ pc = "done" => result \in Labels
    /\ (pc = "done" /\ exc # "none") => result = RUN
    /\ pc = "except" => (exc # "none" /\ run_type = RUN)

\* a call that raised TypeError on the distance has returned Run
C4_Witness ==
    /\ pc = "done"
    /\ exc = "TypeError"
    /\ activity.distance.kind = "none"
    /\ paces # <<>>
    /\ result = RUN

(***************************************************************************)
(* More vocabulary: the splits that are kept, the tests of the decision.   *)
(***************************************************************************)
\* a split whose speed is zero or absent
ZeroOrAbsent(split) ==
    \/ split.kind = "absent"
    \/ split.kind = "num" /\ split.num = 0

Kept(split) == ~ZeroOrAbsent(split)

\* the activity without its splits of zero or absent speed
WithoutSkipped(a) ==
    [a EXCEPT !.splits_metric = SplitsList(SelectSeq(SplitsOf(a), Kept))]

\* 1000 / speed of every split of positive speed, in the order of the splits
PositivePaces(splits) ==
    LET pos == SelectSeq(splits, HasPositiveSpeed)
    IN  [k \in 1..Len(pos) |-> (1000 * pos[k].den) \div pos[k].num]

AllEqual(p) == \A j, k \in 1..Len(p) : p[j] = p[k]

\* distanceMiles of the activity against a whole number of miles
DistanceOver(m) == activity.distance.cm > m * CmPerMile
DistanceFrom(m) == activity.distance.cm >= m * CmPerMile

\* avgPaceSecPerMile >= 450 on the paces of the call
Slow == AtOrSlowerThan730(paces)

(***************************************************************************)
(* C5, as stated.  A call that reaches the threshold decision without      *)
(* satisfying the interval test, with distanceMiles > 10 and               *)
(* avgPaceSecPerMile >= 450, is labelled Long Run.                         *)
(***************************************************************************)
C5_SlowOver10IsLong ==
    (Decided /\ ~IntervalTest /\ DistanceOver(10) /\ Slow) => result = LONG

(***************************************************************************)
(* C6.  A call that reaches the threshold decision with paces that hold no *)
(* strictly monotonic consecutive triple and whose max - min exceeds 20%   *)
(* of their mean is labelled Interval Run, whatever the distance and the   *)
(* average pace are.                                                       *)
(***************************************************************************)
C6_AlternatingIsInterval ==
    (Decided /\ alternating_pattern(paces) /\ VariationAboveFifth(paces)) =>
        result = INTERVAL

\* paces 300, 400, 300, 400, 300 over 11 miles (slow and long: the Easy Run
\* and Long Run conditions hold as well) have been labelled Interval Run
C6_Witness ==
    /\ Decided
    /\ paces = <<300, 400, 300, 400, 300>>
    /\ DistanceOver(10)
    /\ Slow
    /\ result = INTERVAL

(***************************************************************************)
(* C7.  Splits of zero or absent speed are skipped: the paces analysed are *)
(* exactly 1000 / speed of the splits of positive speed, in their order,   *)
(* and an activity that keeps at least 3 splits once those of zero or      *)
(* absent speed are removed is classified as the activity without them.    *)
(***************************************************************************)
C7_ZeroSpeedSkipped ==
    /\ (pc = "decide" \/ Decided) => paces = PositivePaces(SplitsOf(activity))
    /\ (pc = "done" /\ Len(SplitsOf(WithoutSkipped(activity))) >= 3) =>
            result = analyze_run_type(WithoutSkipped(activity))

\* speeds 0, 5, 0, 5, 5 have been classified on the paces 200, 200, 200
C7_Witness ==
    /\ Decided
    /\ SplitsOf(activity) =
          <<Speed(0, 1), Speed(5, 1), Speed(0, 1), Speed(5, 1), Speed(5, 1)>>
    /\ paces = <<200, 200, 200>>
    /\ result = analyze_run_type(WithoutSkipped(activity))

(***************************************************************************)
(* C8.  A call that reaches the threshold decision without satisfying the  *)
(* interval test, with distanceMiles <= 5 and avgPaceSecPerMile < 450, is  *)
(* labelled Tempo Run whatever the standard deviation of the paces is.     *)
(***************************************************************************)
C8_ShortFastIsTempo ==
    (Decided /\ ~IntervalTest /\ ~DistanceOver(5) /\ ~Slow) => result = TEMPO

\* exactly 5 miles, fast, standard deviation of at least 10% of the mean
C8_Witness ==
    /\ Decided
    /\ ~IntervalTest
    /\ activity.distance.cm = 5 * CmPerMile
    /\ ~Slow
    /\ ~StdDevBelowTenth(paces)
    /\ result = TEMPO

C10_MidFastSteadyIsTempo ==
    (Decided /\ ~IntervalTest /\ DistanceFrom(3) /\ ~DistanceOver(10)
        /\ ~Slow /\ StdDevBelowTenth(paces)) => result = TEMPO

\* exactly 10 miles, fast and steady, with paces that are not all equal
C10_Witness ==
    /\ Decided
    /\ ~IntervalTest
    /\ activity.distance.cm = 10 * CmPerMile
    /\ ~Slow
    /\ StdDevBelowTenth(paces)
    /\ ~AllEqual(paces)
    /\ result = TEMPO

(***************************************************************************)
(* C11.  A call that reaches the threshold decision and satisfies none of  *)
(* its five branches is labelled Run; in particular a call that fails the  *)
(* interval test with 5 < distanceMiles <= 10, avgPaceSecPerMile < 450 and *)
(* a standard deviation of at least 10% of the mean pace is labelled Run.  *)
(***************************************************************************)
C11_NoBranchIsRun ==
    /\ (/\ Decided
        /\ ~IntervalTest
        /\ ~(DistanceOver(5) /\ Slow)
        /\ ~(DistanceFrom(3) /\ ~DistanceOver(10) /\ ~Slow /\ StdDevBelowTenth(paces))
        /\ ~(DistanceOver(10) /\ Slow)
        /\ ~(~DistanceOver(5) /\ ~Slow)) => result = RUN
    /\ (Decided /\ ~IntervalTest /\ DistanceOver(5) /\ ~DistanceOver(10)
            /\ ~Slow /\ ~StdDevBelowTenth(paces)) => result = RUN

\* exactly 10 miles, fast, with a wide spread of paces: labelled Run
C11_Witness ==
    /\ Decided
    /\ ~IntervalTest
    /\ activity.distance.cm = 10 * CmPerMile
    /\ ~Slow
    /\ ~StdDevBelowTenth(paces)
    /\ result = RUN

(***************************************************************************)
(* C12.  Whatever the path (keyword return, guard return, threshold        *)
(* decision, exception handler), the value returned is one of the six      *)
(* labels; before the return there is no value.                            *)
(***************************************************************************)
SixLabels ==
    {"High Intensity Interval Training", "Interval Run", "Easy Run",
     "Tempo Run", "Long Run", "run"}

C12_ResultIsALabel ==
    /\ pc = "done" => result \in SixLabels
    /\ pc # "done" => result = "none"

\* the threshold decision took no branch and the fallback was returned
C12_Witness ==
    /\ Decided
    /\ ~IntervalTest
    /\ DistanceOver(10)
    /\ ~Slow
    /\ result = "run"

(***************************************************************************)
(* C14.  No step of analyze_run_type changes its argument: the name, the   *)
(* distance and the splits (their number, order and speeds) of the         *)
(* activity are after every step what they were before it, on a normal     *)
(* return and on an absorbed exception alike.                              *)
(***************************************************************************)
C14_ArgumentUnchanged == [][activity' = activity]_vars

\* a call on splits that hold a speed of zero went through the extraction
\* and ended in the exception handler
C14_Witness ==
    /\ pc = "done"
    /\ exc # "none"
    /\ paces # <<>>
    /\ Len(SplitsOf(activity)) > Len(paces)
    /\ result = RUN

(***************************************************************************)
(* C15.  No keyword and at least 3 splits, every one of zero or absent     *)
(* speed, give the label Run, returned from the empty-pace guard: nothing  *)
(* is raised and no pace is kept.                                          *)
(***************************************************************************)
C15_NoUsablePaceIsRun ==
    (pc = "done" /\ Len(SplitsOf(activity)) >= 3
        /\ (\A k \in 1..Len(SplitsOf(activity)) : ZeroOrAbsent(SplitsOf(activity)[k]))
        /\ NoKeyword) => (result = RUN /\ exc = "none" /\ paces = <<>>)

\* three splits, of zero and of absent speed, and a distance of None
C15_Witness ==
    /\ pc = "done"
    /\ NoKeyword
    /\ Len(SplitsOf(activity)) = 3
    /\ \A k \in 1..3 : ZeroOrAbsent(SplitsOf(activity)[k])
    /\ \E k \in 1..3 : SplitsOf(activity)[k].kind = "absent"
    /\ \E k \in 1..3 : SplitsOf(activity)[k].kind = "num"
    /\ activity.distance.kind = "none"
    /\ result = RUN

(***************************************************************************)
(* C16.  No keyword and no distance give the label Run for every list of   *)
(* splits, also for one whose paces satisfy the interval test.             *)
(***************************************************************************)
C16_NoDistanceIsRun ==
    (pc = "done" /\ activity.distance.kind \in {"absent", "none"} /\ NoKeyword) =>
        result = RUN

\* paces that satisfy the interval test, no distance attribute: the read of
\* the distance raised and Run was returned
C16_Witness ==
    /\ pc = "done"
    /\ NoKeyword
    /\ activity.distance.kind = "absent"
    /\ Len(paces) >= 3
    /\ IntervalTest
    /\ exc = "AttributeError"
    /\ result = RUN

(***************************************************************************)
(* C18, as stated.  A call that reaches the threshold decision without     *)
(* satisfying the interval test, with more than 5 miles at or slower than  *)
(* 7:30 per mile, is labelled Long Run, as the docstring says.             *)
(***************************************************************************)
C18_SlowOver5IsLong ==
    (Decided /\ ~IntervalTest /\ DistanceOver(5) /\ Slow) => result = LONG

(***************************************************************************)
(* C19.  The alternating flag of a pace list is false exactly when three   *)
(* consecutive paces are strictly increasing or strictly decreasing; a     *)
(* list of fewer than 3 paces is alternating, and a triple with an equal   *)
(* adjacent pair does not clear the flag.  The flag is what the first      *)
(* branch of the decision reads: with a pace variation above 20% of the    *)
(* mean, the label is Interval Run exactly when no such triple exists.     *)
(***************************************************************************)
StrictTriple(p) ==
    \E i \in 3..Len(p) :
        \/ (p[i-2] < p[i-1] /\ p[i-1] < p[i])
        \/ (p[i-2] > p[i-1] /\ p[i-1] > p[i])

C19_AlternatingFlag ==
    /\ paces # <<>> => (alternating_pattern(paces) <=> ~StrictTriple(paces))
    /\ (paces # <<>> /\ Len(paces) < 3) => alternating_pattern(paces)
    /\ (Decided /\ VariationAboveFifth(paces)) =>
            (result = INTERVAL <=> ~StrictTriple(paces))

\* two equal paces followed by a slower one: no strict triple, Interval Run
C19_Witness ==
    /\ Decided
    /\ Len(paces) = 3
    /\ paces[1] = paces[2]
    /\ paces[2] < paces[3]
    /\ VariationAboveFifth(paces)
    /\ result = INTERVAL

(***************************************************************************)
(* C20.  A name that contains both a HIIT keyword and an interval keyword  *)
(* gets the HIIT label, whichever of the two comes first in the name; the  *)
(* title check of custom_run.py gives the HIIT label to such a name too.   *)
(***************************************************************************)
C20_HiitBeforeInterval ==
    (pc = "done" /\ NameHas(HiitWords) /\ NameHas(IntervalWords)) =>
        /\ result = HIIT
        /\ custom_run_type(activity.name.chars) = HIIT

\* '12x400 Sprint Intervals': the interval keywords 'x' and '400' come before
\* 'sprint'
C20_Witness ==
    /\ pc = "done"
    /\ activity.name.kind = "str"
    /\ EarliestKeyword(interval_keywords, Lower(activity.name.chars))
         < EarliestKeyword(hiit_keywords, Lower(activity.name.chars))
    /\ NameHas(HiitWords)
    /\ result = HIIT

(***************************************************************************)
(* C13.  Classification is deterministic: whenever a call returns, every   *)
(* earlier call on an activity with the same name, splits and distance     *)
(* returned the same label, whatever was classified in between.            *)
(***************************************************************************)
C13_EqualActivitiesEqualLabels ==
    pc = "done" =>
        \A k \in 1..Len(history) :
            history[k].a = activity => history[k].r = result

\* an activity whose call raises, classified before and after an activity
\* that got another label
C13_Witness ==
    /\ pc = "done"
    /\ Len(history) = 2
    /\ history[1].a = activity
    /\ history[2].a # activity
    /\ history[2].r \notin {RUN, result}
    /\ exc # "none"
    /\ result = history[1].r

(***************************************************************************)
(* C17.  Under every interleaving of the steps of two calls, on equal or   *)
(* different activities, each call returns the label it returns when it    *)
(* runs alone.                                                             *)
(***************************************************************************)
C17_EachCallAsAlone ==
    /\ pc = "done" => result = analyze_run_type(activity)
    /\ peer.pc = "done" => peer.result = analyze_run_type(peer.activity)

\* both calls have returned; the first raised and fell back to "run" while
\* the second assigned another label to its own run_type
C17_Witness ==
    /\ pc = "done"
    /\ peer.pc = "done"
    /\ exc # "none"
    /\ result = RUN
    /\ run_type = RUN
    /\ peer.exc = "none"
    /\ peer.run_type \notin {RUN}
    /\ peer.result = peer.run_type

C22_FewSplitsReturnBeforeDistance ==
    (pc = "done" /\ Len(SplitsOf(activity)) < 3 /\ NoKeyword) =>
        /\ result = RUN
        /\ exc = "none"
        /\ paces = <<>>

\* two splits and no distance attribute
C22_Witness ==
    /\ pc = "done"
    /\ Len(SplitsOf(activity)) = 2
    /\ activity.distance.kind = "absent"
    /\ NoKeyword
    /\ exc = "none"
    /\ result = RUN

(***************************************************************************)
(* C23.  A call that reaches the threshold decision without satisfying the *)
(* interval test, with at most 5 miles at or slower than 7:30 per mile, is *)
(* labelled Run.                                                           *)
(***************************************************************************)
C23_ShortSlowIsRun ==
    (Decided /\ ~IntervalTest /\ ~DistanceOver(5) /\ Slow) => result = RUN

\* exactly 5 miles, slow
C23_Witness ==
    /\ Decided
    /\ ~IntervalTest
    /\ activity.distance.cm = 5 * CmPerMile
    /\ Slow
    /\ result = RUN

(***************************************************************************)
(* C24.  When all usable paces are equal the sequence is alternating, the  *)
(* pace variation is 0 and does not exceed 20% of the mean, and the label  *)
(* is never Interval Run: it is Easy Run above 5 miles when slow, Tempo    *)
(* Run up to 10 miles when fast, and Run otherwise.                        *)
(***************************************************************************)
C24_EqualPacesNeverInterval ==
    /\ (pc = "done" /\ NoKeyword
            /\ ~SomeSpeedNotComparable(SplitsOf(activity))
            /\ AllEqual(PositivePaces(SplitsOf(activity)))) => result # INTERVAL
    /\ (Decided /\ AllEqual(paces)) =>
            /\ alternating_pattern(paces)
            /\ pace_variation(paces) = 0
            /\ ~VariationAboveFifth(paces)
            /\ result = IF DistanceOver(5) /\ Slow THEN EASY
                        ELSE IF ~DistanceOver(10) /\ ~Slow THEN TEMPO
                        ELSE RUN

\* four equal fast paces over 3 miles
C24_Witness ==
    /\ Decided
    /\ Len(paces) = 4
    /\ AllEqual(paces)
    /\ alternating_pattern(paces)
    /\ ~Slow
    /\ result = TEMPO

(***************************************************************************)
(* C25.  The analyze_run_type of main.py and the one of run_analyzer.py    *)
(* give every activity the same label: whenever a call of the second       *)
(* returns, its label is the one the first computes for the same activity. *)
(***************************************************************************)
C25_CopiesAgree ==
    pc = "done" => result = main_analyze_run_type(activity)

\* agreement on a label of the threshold chain
C25_Witness ==
    /\ Decided
    /\ result = EASY
    /\ main_analyze_run_type(activity) = EASY
    /\ activity.distance.cm > 10 * CmPerMile

(***************************************************************************)
(* C26, as stated.  Once every request received has finished, with or      *)
(* without an exception in build_prompt or generate_image, the working     *)
(* directory of the process is the one it had before the first request.    *)
(***************************************************************************)
AllFinished == \A r \in Requests : req[r].pc \in {"idle", "done"}

C26_CwdRestored == AllFinished => cwd = launch_cwd

(***************************************************************************)
(* C27, as stated.  The key issued to a successful request keeps its entry *)
(* in GENERATED_IMAGES, and the file that entry points to keeps the image  *)
(* of that request, whatever is generated later.                           *)
(***************************************************************************)
C27_IssuedKeyKeepsItsImage ==
    \A r \in Requests :
        req[r].status = 200 =>
            /\ req[r].image_key \in DOMAIN GENERATED_IMAGES
            /\ GENERATED_IMAGES[req[r].image_key] = req[r].image_path
            /\ serve_image(req[r].image_key) \in {r, 404}

(***************************************************************************)
(* C28.  select_activity returns None only on a line equal to 'q' in any   *)
(* letter case, and otherwise returns activities[k-1] for the first line   *)
(* that int() reads as a k with 1 <= k <= len(activities); every line      *)
(* before the one it returns on was neither, and while it prompts nothing  *)
(* has been returned.  What it returns other than None is an element of    *)
(* the list, and no step changes the list.                                 *)
(***************************************************************************)
IsQuit(line) == Lower(line) = <<"q">>

IsIndex(line) ==
    ~ValueError(line) /\ int(line) >= 1 /\ int(line) =< Len(activities)

Reprompts(line) == ~IsQuit(line) /\ ~IsIndex(line)

SelectReturnsAsSpecified ==
    /\ menu = "prompt" =>
          /\ selected = "unset"
          /\ \A j \in 1..Len(entered) : Reprompts(entered[j])
    /\ menu = "returned" =>
          /\ entered # <<>>
          /\ \A j \in 1..(Len(entered) - 1) : Reprompts(entered[j])
          /\ LET last == entered[Len(entered)] IN
             IF IsQuit(last) THEN selected = "None"
             ELSE /\ IsIndex(last)
                  /\ selected = activities[int(last)]
                  /\ \E k \in 1..Len(activities) : selected = activities[k]

C28_SelectActivity ==
    [](SelectReturnsAsSpecified) /\ [][activities' = activities]_vars

\* a number beyond the list and a line that is no number were typed before
\* the second activity was chosen
C28_Witness ==
    /\ menu = "returned"
    /\ Len(entered) = 3
    /\ ~ValueError(entered[1]) /\ int(entered[1]) > Len(activities)
    /\ ValueError(entered[2]) /\ ~IsQuit(entered[2])
    /\ Len(activities) = 2
    /\ selected = activities[2]

====
